---- MODULE Spec2Model ----
(***************************************************************************)
(* The video API of youtube_api/api: the Metadata Store (Video rows), the  *)
(* Blob Store (uploaded files) and the request handlers of views.py, with  *)
(* the upload serializer of serializers.py and Video.save of models.py.    *)
(*                                                                         *)
(* A handler that issues one datastore query is one action.  A handler     *)
(* that reads and later writes (detail, upload, delete) is one action per  *)
(* datastore or blob-store operation, its position kept in `inflight`; the *)
(* number of requests in flight is limited by the specification: Spec      *)
(* serves one request at a time, SpecConc lets requests overlap.           *)
(***************************************************************************)
EXTENDS Integers, Sequences, FiniteSets, TLC

(* ------------------------------ bounds -------------------------------- *)
\* Seed rows (management command seed_data) the store may start with.
MaxSeed == 1
\* Video ids ever issued (seed rows and uploads together).
MaxVideos == 2
\* An uploaded video is viewed until its counter reaches this value.
MaxViews == 2
\* Requests that may overlap under SpecConc.
MaxInflight == 2
\* Video ids ever issued under SpecConc.
MaxConcVideos == 1
\* Rows of the stores that SpecRec draws.
RecMaxVideos == 12
\* Rows of the stores that SpecQuery draws: more than the default limit.
QueryMaxVideos == 22
\* Whole days of the upload ages that SpecDisplay draws.
DisplayMaxDays == 731

(* -------------------------- program constants ------------------------- *)
MAX_VIDEO_SIZE == 500 * 1024 * 1024
MAX_THUMBNAIL_SIZE == 10 * 1024 * 1024
DEFAULT_LIMIT == 20
SEARCH_LIMIT == 20
TIER1_LIMIT == 5
RECOMMENDED_LIMIT == 10

(* ------------------------------ helpers ------------------------------- *)
\* An optional value is a set with at most one element.
Nothing == {}
Some(x) == {x}
The(o) == CHOOSE x \in o : TRUE

Min(a, b) == IF a <= b THEN a ELSE b

Take(s, n) == SubSeq(s, 1, Min(n, Len(s)))

Range(s) == {s[i] : i \in 1..Len(s)}

\* Text is a sequence of one-character strings.
UpperCase == <<"A", "B", "C", "D", "E", "F", "G", "H", "I", "J", "K", "L", "M",
               "N", "O", "P", "Q", "R", "S", "T", "U", "V", "W", "X", "Y", "Z">>
LowerCase == <<"a", "b", "c", "d", "e", "f", "g", "h", "i", "j", "k", "l", "m",
               "n", "o", "p", "q", "r", "s", "t", "u", "v", "w", "x", "y", "z">>

LowerOf == [c \in Range(UpperCase) |->
               LowerCase[CHOOSE i \in 1..Len(UpperCase) : UpperCase[i] = c]]

\* str.lower() on one character.
LowerChar(c) == IF c \in DOMAIN LowerOf THEN LowerOf[c] ELSE c

\* str.lower()
Lower(s) == [i \in 1..Len(s) |-> LowerChar(s[i])]

\* The __icontains lookup: q occurs in s, letter case ignored.
IContains(s, q) ==
    \E i \in 0..(Len(s) - Len(q)) :
        SubSeq(Lower(s), i + 1, i + Len(q)) = Lower(q)

\* os.path.splitext(name)[1]: the suffix from the last dot of the base name,
\* empty when there is no dot or only leading dots precede it.
SplitExt(name) ==
    LET seps == {i \in 1..Len(name) : name[i] = "/"}
        sep  == IF seps = {} THEN 0 ELSE CHOOSE i \in seps : \A j \in seps : j <= i
        dots == {i \in (sep + 1)..Len(name) : name[i] = "."}
        dot  == IF dots = {} THEN 0 ELSE CHOOSE i \in dots : \A j \in dots : j <= i
    IN  IF dot = 0 \/ (\A j \in (sep + 1)..dot : name[j] = ".")
        THEN <<>>
        ELSE SubSeq(name, dot, Len(name))

\* The ids of S as a sequence, by descending key; equal keys in ascending or
\* descending id order (tb): the datastore leaves the order of ties open.
RECURSIVE OrderByDesc(_, _, _)
OrderByDesc(S, key, tb) ==
    IF S = {} THEN <<>>
    ELSE LET m == CHOOSE x \in S : \A y \in S :
                      \/ key[x] > key[y]
                      \/ /\ key[x] = key[y]
                         /\ IF tb = "asc" THEN x <= y ELSE x >= y
         IN  <<m>> \o OrderByDesc(S \ {m}, key, tb)

TieBreaks == {"asc", "desc"}

(* ----------------------- settings and fixed tables -------------------- *)
ALLOWED_VIDEO_EXTENSIONS ==
    { <<".", "m", "p", "4">>, <<".", "a", "v", "i">>, <<".", "m", "o", "v">>,
      <<".", "w", "m", "v">>, <<".", "f", "l", "v">>, <<".", "w", "e", "b", "m">> }
ALLOWED_IMAGE_EXTENSIONS ==
    { <<".", "j", "p", "g">>, <<".", "j", "p", "e", "g">>, <<".", "p", "n", "g">>,
      <<".", "g", "i", "f">>, <<".", "w", "e", "b", "p">> }

STATUS_CHOICES == {"draft", "processing", "published", "private", "unlisted"}

\* Channel and Category rows are created by the management commands and never
\* change; the model keeps three categories and two channels of seed_data.
CategorySlug == <<  <<"a", "l", "l">>, <<"m", "u", "s", "i", "c">>,
                    <<"t", "e", "c", "h">>  >>
Categories == 1..Len(CategorySlug)

ChannelName == <<  <<"T", "e", "c", "h">>, <<"C", "o", "d", "e">>  >>
Channels == 1..Len(ChannelName)

\* Text order for order_by('name'): letter by letter, capitals before small
\* letters, a proper prefix before its extensions.
Alphabet == UpperCase \o LowerCase
CharRank(c) == CHOOSE i \in 1..Len(Alphabet) : Alphabet[i] = c
TextLess(a, b) ==
    \E i \in 1..(Len(a) + 1) :
        /\ i <= Len(b)
        /\ \A j \in 1..(i - 1) : a[j] = b[j]
        /\ (i = Len(a) + 1 \/ CharRank(a[i]) < CharRank(b[i]))

\* The ids of S in ascending order of name.
OrderByName(S, name) ==
    CHOOSE seq \in [1..Cardinality(S) -> S] :
        \A a, b \in 1..Cardinality(S) : a < b => TextLess(name[seq[a]], name[seq[b]])

(* ------------------------------ Video rows ---------------------------- *)
\* A Video row (models.py, class Video).  video_file and thumbnail_file hold
\* the path of the stored blob; an absent optional field is the empty set.
NewVideo(id, title, description, channel, category, status, views, upload_date, video_file, thumbnail_file) ==
    [ id |-> id, title |-> title, description |-> description,
      channel |-> channel, category |-> category, status |-> status,
      views |-> views, file_size |-> 0,
      upload_date |-> upload_date, published_date |-> Nothing,
      video_file |-> video_file, thumbnail_file |-> thumbnail_file ]

\* seed_data: Video.objects.get_or_create(title=..., defaults={...}) gives no
\* status and no file, so a seeded row is a draft (the field's default) without
\* blobs, with the view count of the seed list.  Titles are shortened.
SeedViews == <<3250000, 120000, 850000>>
SeedTitle == <<  <<"A", "I">>, <<"P", "y">>, <<"G", "a">>  >>
SeedVideo(i, date) ==
    LET n == ((i - 1) % Len(SeedViews)) + 1
    IN  NewVideo(i, SeedTitle[n], <<"s">>, ((i - 1) % Len(ChannelName)) + 1,
                 Some(Len(CategorySlug)), "draft", SeedViews[n], date,
                 Nothing, Nothing)

\* upload_date = now - timedelta(days=random.randint(1, 30)): every seeded row
\* lies in the past, in an order of its own.
SeedDates(k) ==
    {d \in [1..k -> {0 - j : j \in 1..k}] : \A a, b \in 1..k : a # b => d[a] # d[b]}

(* ------------------------------ Blob Store ---------------------------- *)
\* video_upload_path / thumbnail_upload_path: {kind}/{channel_id}/{uuid}_{name}
UploadPath(kind, channel, token, name) ==
    [kind |-> kind, channel |-> channel, token |-> token, name |-> name]

Blob(path, size) == [path |-> path, size |-> size]

BlobPaths(bs) == {b.path : b \in bs}

\* storage.size(name) of a stored file.
BlobSize(bs, path) ==
    LET S == {b \in bs : b.path = path}
    IN  IF S = {} THEN 0 ELSE (The(S)).size

\* storage.delete(name): removing a file that is not there is not an error.
\* A storage.delete that removes nothing.
StorageDelete_KeepsBlob(bs, path) == bs

StorageDelete(bs, path) == {b \in bs : b.path # path}

(* ---------------------------- upload requests ------------------------- *)
File(name, size) == [name |-> name, size |-> size]

UploadRequest(title, description, video_file, thumbnail_file, category, channel, status) ==
    [ title |-> title, description |-> description, video_file |-> video_file,
      thumbnail_file |-> thumbnail_file, category |-> category,
      channel |-> channel, status |-> status ]

Mp4Name == <<"v", ".", "m", "p", "4">>
UpperMp4Name == <<"V", ".", "M", "P", "4">>
PngName == <<"t", ".", "p", "n", "g">>
TxtName == <<"n", ".", "t", "x", "t">>
BareName == <<"m", "p", "4">>

\* Two requests that pass validation: one with a thumbnail, a category and a
\* status of the client's, one with a video of exactly the maximum size whose
\* suffix is upper case.
UploadWithThumbnail ==
    UploadRequest(Some(<<"A", "b">>), Some(<<"c", "d">>), Some(File(Mp4Name, 1024)),
                  Some(File(PngName, 2048)), Some(2), Some(1), Some("draft"))
UploadMaxSize ==
    UploadRequest(Some(<<"b">>), Nothing, Some(File(UpperMp4Name, MAX_VIDEO_SIZE)),
                  Nothing, Nothing, Some(2), Nothing)
ValidRequests == {UploadWithThumbnail, UploadMaxSize}

Defects == { "video_too_large", "video_bad_ext", "video_no_ext", "video_empty",
             "video_missing", "thumb_too_large", "thumb_bad_ext",
             "title_missing", "title_blank", "channel_missing" }

\* The defects of the requests of a run.
DefectInputs == { "video_too_large", "thumb_bad_ext", "channel_missing" }

WithDefect(r, d) ==
    CASE d = "video_too_large" ->
           [r EXCEPT !.video_file = Some(File(Mp4Name, MAX_VIDEO_SIZE + 1))]
      [] d = "video_bad_ext" -> [r EXCEPT !.video_file = Some(File(TxtName, 1024))]
      [] d = "video_no_ext" -> [r EXCEPT !.video_file = Some(File(BareName, 1024))]
      [] d = "video_empty" -> [r EXCEPT !.video_file = Some(File(Mp4Name, 0))]
      [] d = "video_missing" -> [r EXCEPT !.video_file = Nothing]
      [] d = "thumb_too_large" ->
           [r EXCEPT !.thumbnail_file = Some(File(PngName, MAX_THUMBNAIL_SIZE + 1))]
      [] d = "thumb_bad_ext" -> [r EXCEPT !.thumbnail_file = Some(File(TxtName, 2048))]
      [] d = "title_missing" -> [r EXCEPT !.title = Nothing]
      [] d = "title_blank" -> [r EXCEPT !.title = Some(<<>>)]
      [] d = "channel_missing" -> [r EXCEPT !.channel = Nothing]

UploadRequests == ValidRequests \cup {WithDefect(r, d) : r \in ValidRequests, d \in Defects}

UploadInputs == ValidRequests \cup {WithDefect(UploadWithThumbnail, d) : d \in DefectInputs}

\* File names for the validator, each with the suffix it ends in, lower-cased
\* ("" when it has none; a name that is only a dot and letters has none).
FileNames ==
    { <<Mp4Name, "mp4">>, <<UpperMp4Name, "mp4">>, <<PngName, "png">>, <<TxtName, "txt">>,
      <<BareName, "">>,
      <<  <<".", "m", "p", "4">>, "" >>,
      <<  <<"a", ".", "A", "v", "i">>, "avi" >>,
      <<  <<"a", ".", "m", "o", "v">>, "mov" >>,
      <<  <<"a", ".", "w", "m", "v">>, "wmv" >>,
      <<  <<"a", ".", "f", "l", "v">>, "flv" >>,
      <<  <<"a", ".", "w", "e", "b", "m">>, "webm" >>,
      <<  <<"a", ".", "m", "p", "4", ".", "t", "x", "t">>, "txt" >>,
      <<  <<"a", ".", "b", ".", "m", "p", "4">>, "mp4" >>,
      <<  <<"a", ".", "m", "p">>, "mp" >>,
      <<  <<"a", ".", "m", "p", "4", "x">>, "mp4x" >>,
      <<  <<"a", ".", "j", "p", "g">>, "jpg" >>,
      <<  <<"a", ".", "J", "p", "e", "G">>, "jpeg" >>,
      <<  <<"A", ".", "P", "N", "G">>, "png" >>,
      <<  <<"a", ".", "g", "i", "f">>, "gif" >>,
      <<  <<"a", ".", "w", "e", "b", "p">>, "webp" >>,
      <<  <<"a", ".", "j", "p">>, "jp" >>,
      <<  <<"a", ".", "b", ".", "p", "n", "g">>, "png" >> }

VideoSizes == {1, MAX_VIDEO_SIZE - 1, MAX_VIDEO_SIZE, MAX_VIDEO_SIZE + 1}
ThumbnailSizes == {1, MAX_THUMBNAIL_SIZE - 1, MAX_THUMBNAIL_SIZE, MAX_THUMBNAIL_SIZE + 1}

\* Upload requests whose other fields are valid: any video file with the
\* thumbnail of UploadWithThumbnail or none, that video with any thumbnail,
\* a bad video together with a bad thumbnail, and both files at their limits.
ValidatorInputs ==
    { [UploadWithThumbnail EXCEPT !.video_file = Some(File(n[1], z))] :
          n \in FileNames, z \in VideoSizes }
    \cup { [UploadMaxSize EXCEPT !.video_file = Some(File(n[1], z))] :
          n \in FileNames, z \in VideoSizes }
    \cup { [UploadWithThumbnail EXCEPT !.thumbnail_file = Some(File(n[1], z))] :
          n \in FileNames, z \in ThumbnailSizes }
    \cup { [UploadWithThumbnail EXCEPT !.video_file = Some(File(TxtName, MAX_VIDEO_SIZE + 1)),
                                       !.thumbnail_file = Some(File(Mp4Name, 1))],
           [UploadWithThumbnail EXCEPT !.video_file = Some(File(UpperMp4Name, MAX_VIDEO_SIZE)),
                                       !.thumbnail_file = Some(File(PngName, MAX_THUMBNAIL_SIZE))] }

(* --------------------------- Upload Validator ------------------------- *)
\* validate_video_file without its size check.
validate_video_file_NoSizeCheck(value) ==
    IF Lower(SplitExt(value.name)) \notin ALLOWED_VIDEO_EXTENSIONS
    THEN Some("unsupported_format")
    ELSE Nothing

\* VideoUploadSerializer.validate_video_file: the error raised, if any.
validate_video_file(value) ==
    IF value.size > MAX_VIDEO_SIZE THEN Some("too_large")
    ELSE IF Lower(SplitExt(value.name)) \notin ALLOWED_VIDEO_EXTENSIONS
         THEN Some("unsupported_format")
         ELSE Nothing

\* validate_thumbnail_file refusing a file of exactly 10 MB (>= for >).
validate_thumbnail_file_Exclusive(value) ==
    IF value.name = <<>> THEN Nothing
    ELSE IF value.size >= MAX_THUMBNAIL_SIZE THEN Some("too_large")
         ELSE IF Lower(SplitExt(value.name)) \notin ALLOWED_IMAGE_EXTENSIONS
              THEN Some("unsupported_format")
              ELSE Nothing

\* VideoUploadSerializer.validate_thumbnail_file: the error raised, if any.
validate_thumbnail_file(value) ==
    IF value.name = <<>> THEN Nothing
    ELSE IF value.size > MAX_THUMBNAIL_SIZE THEN Some("too_large")
         ELSE IF Lower(SplitExt(value.name)) \notin ALLOWED_IMAGE_EXTENSIONS
              THEN Some("unsupported_format")
              ELSE Nothing

\* serializer.is_valid(): the field-keyed error report, <<field, error>> pairs.
\* The declared fields reject a missing required value, a blank title, an
\* empty file and a status that is not one of the model's choices before the
\* validate_<field> methods run.
SerializerErrors(req) ==
    LET title == IF req.title = Nothing THEN {"required"}
                 ELSE IF The(req.title) = <<>> THEN {"blank"} ELSE {}
        channel == IF req.channel = Nothing THEN {"required"} ELSE {}
        video == IF req.video_file = Nothing THEN {"required"}
                 ELSE IF (The(req.video_file)).size = 0 THEN {"empty"}
                      ELSE validate_video_file(The(req.video_file))
        thumb == IF req.thumbnail_file = Nothing THEN {}
                 ELSE IF (The(req.thumbnail_file)).size = 0 THEN {"empty"}
                      ELSE validate_thumbnail_file(The(req.thumbnail_file))
        status == IF req.status # Nothing /\ The(req.status) \notin STATUS_CHOICES
                  THEN {"invalid_choice"} ELSE {}
    IN  {<<"title", e>> : e \in title} \cup {<<"channel", e>> : e \in channel}
        \cup {<<"video_file", e>> : e \in video}
        \cup {<<"thumbnail_file", e>> : e \in thumb}
        \cup {<<"status", e>> : e \in status}

(* ------------------------------ display ------------------------------ *)
\* A timedelta of whole seconds: its days and seconds attributes.
TimedeltaDays(total) == total \div (24 * 3600)
TimedeltaSeconds(total) == total % (24 * 3600)

\* "<n> <unit>s ago" if n > 1 else "1 <unit> ago", as the number shown and the
\* unit word.
AgoText(n, unit, units) == IF n > 1 THEN <<n, units>> ELSE <<1, unit>>

\* Video.uploaded_display for diff = now - upload_date.
uploaded_display(days, seconds) ==
    IF days = 0
    THEN IF seconds \div 3600 = 0
         THEN AgoText(seconds \div 60, "minute", "minutes")
         ELSE AgoText(seconds \div 3600, "hour", "hours")
    ELSE IF days < 7 THEN AgoText(days, "day", "days")
    ELSE IF days < 30 THEN AgoText(days \div 7, "week", "weeks")
    ELSE IF days < 365 THEN AgoText(days \div 30, "month", "months")
    ELSE AgoText(days \div 365, "year", "years")

(* ----------------------------- Metadata Store ------------------------- *)
\* The datastore and the blob store together.
Db(vs, bs, nid, ntok, t) ==
    [videos |-> vs, blobs |-> bs, nextId |-> nid, nextToken |-> ntok, now |-> t]

\* Video.save that never stamps published_date.
VideoSaveFields_NoPublishedDate(inst, size, t) ==
    IF inst.video_file # Nothing /\ inst.file_size = 0
    THEN [inst EXCEPT !.file_size = size] ELSE inst

\* Video.save stamping published_date at every save of a published row.
VideoSaveFields_StampsAgain(inst, size, t) ==
    LET a == IF inst.video_file # Nothing /\ inst.file_size = 0
             THEN [inst EXCEPT !.file_size = size] ELSE inst
    IN  IF a.status = "published"
        THEN [a EXCEPT !.published_date = Some(t)] ELSE a

\* Video.save, the part before super().save(): size is video_file.size.
VideoSaveFields(inst, size, t) ==
    LET a == IF inst.video_file # Nothing /\ inst.file_size = 0
             THEN [inst EXCEPT !.file_size = size] ELSE inst
    IN  IF a.status = "published" /\ a.published_date = Nothing
        THEN [a EXCEPT !.published_date = Some(t)] ELSE a

\* Video.objects.create(**validated_data): the instance is built with the
\* model's defaults, Video.save runs, the files are written to the Blob Store
\* under fresh paths and the row is inserted under the next id.
ObjectsCreate(db, data) ==
    LET id    == db.nextId
        video == The(data.video_file)
        vpath == UploadPath("videos", data.channel, db.nextToken, video.name)
        thumb == IF data.thumbnail_file = Nothing THEN {}
                 ELSE LET f == The(data.thumbnail_file)
                      IN  {Blob(UploadPath("thumbnails", data.channel,
                                           db.nextToken + 1, f.name), f.size)}
        inst0 == NewVideo(id, data.title, data.description, data.channel,
                          data.category, data.status, 0, db.now,
                          Some(vpath), BlobPaths(thumb))
        inst  == VideoSaveFields(inst0, video.size, db.now)
    IN  [ inst |-> inst,
          db |-> Db((id :> inst) @@ db.videos,
                    db.blobs \cup {Blob(vpath, video.size)} \cup thumb,
                    id + 1, db.nextToken + 1 + Cardinality(thumb), db.now + 1) ]

\* instance.save(): Video.save, then UPDATE of every column WHERE id = pk, and
\* an INSERT under the same pk when the UPDATE matched no row.
SaveAll(db, inst) ==
    LET size == IF inst.video_file = Nothing THEN 0
                ELSE BlobSize(db.blobs, The(inst.video_file))
        a    == VideoSaveFields(inst, size, db.now)
    IN  [ inst |-> a, ok |-> TRUE,
          db |-> [db EXCEPT !.videos = (a.id :> a) @@ db.videos] ]

\* save(update_fields=...) naming a column other than views: the UPDATE runs
\* and the counter stays.
SaveViews_WrongColumn(db, inst) ==
    [inst |-> inst, ok |-> inst.id \in DOMAIN db.videos, db |-> db]

\* The increment done in the datastore (views = F('views') + 1), the instance
\* refreshed from the row.
SaveViews_Atomic(db, inst) ==
    IF inst.id \in DOMAIN db.videos
    THEN LET n == db.videos[inst.id].views + 1
         IN  [ inst |-> [inst EXCEPT !.views = n], ok |-> TRUE,
               db |-> [db EXCEPT !.videos[inst.id].views = n] ]
    ELSE [ inst |-> inst, ok |-> FALSE, db |-> db ]

\* instance.save() in place of save(update_fields=['views']): every column is
\* written, and the row inserted when the UPDATE matched none.
SaveViews_FullSave(db, inst) ==
    LET size == IF inst.video_file = Nothing THEN 0
                ELSE BlobSize(db.blobs, The(inst.video_file))
        a    == VideoSaveFields(inst, size, db.now)
    IN  [ inst |-> a, ok |-> TRUE,
          db |-> [db EXCEPT !.videos = (a.id :> a) @@ db.videos] ]

\* save(update_fields=['views']) on a model whose upload_date is refreshed at
\* every save: the UPDATE writes views and upload_date.
SaveViews_AutoNow(db, inst) ==
    LET size == IF inst.video_file = Nothing THEN 0
                ELSE BlobSize(db.blobs, The(inst.video_file))
        a    == VideoSaveFields(inst, size, db.now)
    IN  IF a.id \in DOMAIN db.videos
        THEN [ inst |-> a, ok |-> TRUE,
               db |-> [db EXCEPT !.videos[a.id].views = a.views,
                                 !.videos[a.id].upload_date = db.now] ]
        ELSE [ inst |-> a, ok |-> FALSE, db |-> db ]

\* instance.save(update_fields=['views']): UPDATE of the views column alone;
\* a DatabaseError when the UPDATE matched no row.
SaveViews(db, inst) ==
    LET size == IF inst.video_file = Nothing THEN 0
                ELSE BlobSize(db.blobs, The(inst.video_file))
        a    == VideoSaveFields(inst, size, db.now)
    IN  IF a.id \in DOMAIN db.videos
        THEN [ inst |-> a, ok |-> TRUE,
               db |-> [db EXCEPT !.videos[a.id].views = a.views] ]
        ELSE [ inst |-> a, ok |-> FALSE, db |-> db ]

\* instance.delete(): DELETE WHERE id = pk.
DeleteRow(db, id) ==
    [db EXCEPT !.videos = [i \in (DOMAIN db.videos) \ {id} |-> db.videos[i]]]

\* VideoUploadSerializer.create without its first assignment: the row is
\* created with the status the client sent, or the model's default.
ValidatedData_ClientStatus(req) ==
    [ title |-> The(req.title),
      description |-> IF req.description = Nothing THEN <<>> ELSE The(req.description),
      video_file |-> req.video_file, thumbnail_file |-> req.thumbnail_file,
      category |-> req.category, channel |-> The(req.channel),
      status |-> IF req.status = Nothing THEN "draft" ELSE The(req.status) ]

\* VideoUploadSerializer.create: the row is created as 'processing', whatever
\* status the client sent, then saved again as 'published'.
ValidatedData(req) ==
    [ title |-> The(req.title),
      description |-> IF req.description = Nothing THEN <<>> ELSE The(req.description),
      video_file |-> req.video_file, thumbnail_file |-> req.thumbnail_file,
      category |-> req.category, channel |-> The(req.channel),
      status |-> "processing" ]

MarkPublished(inst) == [inst EXCEPT !.status = "published"]

(* ------------------------------- queries ------------------------------ *)
\* .filter(status='published')
Published(vs) == {i \in DOMAIN vs : vs[i].status = "published"}

\* Meta.ordering = ['upload_date']: oldest first.
DefaultOrder_OldestFirst(vs, S) ==
    OrderByDesc(S, [i \in DOMAIN vs |-> 0 - vs[i].upload_date], "asc")

\* Meta.ordering = ['-upload_date']
DefaultOrder(vs, S) == OrderByDesc(S, [i \in DOMAIN vs |-> vs[i].upload_date], "asc")

\* The search filter with the Q objects joined by & and not by |.
Matches_AllFields(v, q) ==
    /\ IContains(v.title, q)
    /\ IContains(v.description, q)
    /\ IContains(ChannelName[v.channel], q)

\* Q(title__icontains) | Q(description__icontains) | Q(channel__name__icontains)
Matches(v, q) ==
    \/ IContains(v.title, q)
    \/ IContains(v.description, q)
    \/ IContains(ChannelName[v.channel], q)

\* VideoSerializer / VideoDetailSerializer: the stored fields a response shows.
Serialize(v) ==
    [ id |-> v.id, title |-> v.title, views |-> v.views, status |-> v.status,
      channel |-> v.channel, category |-> v.category, file_size |-> v.file_size ]

SerializeMany(vs, ids) == [n \in 1..Len(ids) |-> Serialize(vs[ids[n]])]

(* ------------------------------- state -------------------------------- *)
VARIABLES
    videos,     \* Metadata Store: id -> Video row, for the rows that exist
    blobs,      \* Blob Store: the stored files, each a path and a byte length
    nextId,     \* the next id the datastore issues (ids are never reused)
    nextToken,  \* the next random token of an upload path
    now,        \* the clock, advanced by every row creation
    inflight,   \* per worker: the request it is serving and where it stands
    resp,       \* the response the step taken last sent, if it sent one
    served      \* per video id: the detail(id) requests answered with success

vars == <<videos, blobs, nextId, nextToken, now, inflight, resp, served>>

CurrentDb == Db(videos, blobs, nextId, nextToken, now)

SetDb(db) ==
    /\ videos' = db.videos
    /\ blobs' = db.blobs
    /\ nextId' = db.nextId
    /\ nextToken' = db.nextToken
    /\ now' = db.now

Idle == [op |-> "idle"]

Workers == 1..MaxInflight

\* Response(...): op is the handler, arg the id of the route (if any), code the
\* HTTP status, data the serialized videos, errors the per-field report.
Response(op, arg, code, data, errors) ==
    [op |-> op, arg |-> arg, code |-> code, data |-> data, errors |-> errors]

\* The success response of a listing handler: {'count': len(serializer.data),
\* 'data': serializer.data}.  arg holds the query parameters of the request.
CountedResponse(op, arg, data) ==
    [ op |-> op, arg |-> arg, code |-> 200, data |-> data, errors |-> {},
      count |-> Len(data) ]

\* resp while the step taken last sent no response.
NoResponse == Response("none", Nothing, 0, <<>>, {})

\* A worker among the first k is free to take a request: the lowest free one.
\* A request is accepted once the response before it has been delivered.
Free(k, w) ==
    /\ resp = NoResponse
    /\ w \in 1..k
    /\ inflight[w] = Idle
    /\ \A u \in 1..(w - 1) : inflight[u] # Idle

Init ==
    \E k \in 0..MaxSeed : \E d \in SeedDates(k) :
        /\ videos = [i \in 1..k |-> SeedVideo(i, d[i])]
        /\ blobs = {}
        /\ nextId = k + 1
        /\ nextToken = 1
        /\ now = 0
        /\ inflight = [w \in Workers |-> Idle]
        /\ resp = NoResponse
        /\ served = [i \in 1..k |-> 0]

(* ------------------------------ parameters ---------------------------- *)
\* category, search and limit of GET getvideos; q of GET search.
CategoryParams == { Nothing, Some(<<>>), Some(<<"a", "l", "l">>), Some(<<"A", "L", "L">>),
                    Some(<<"A", "l", "L">>), Some(<<"m", "u", "s", "i", "c">>),
                    Some(<<"M", "u", "s", "i", "c">>), Some(<<"t", "e", "c", "h">>) }
SearchParams == { Nothing, Some(<<>>), Some(<<"B">>), Some(<<"c", "O">>), Some(<<"C", "D">>),
                  Some(<<"a">>), Some(<<"s">>), Some(<<"z">>) }
LimitParams == { Nothing, Some(<<"0">>), Some(<<"1">>), Some(<<"2">>), Some(<<"2", "1">>),
                 Some(<<"-", "1">>), Some(<<"x">>) }

\* The parameter values the requests of a run are sent with.
CategoryInputs == { Nothing, Some(<<"m", "u", "s", "i", "c">>) }
SearchInputs == { Nothing, Some(<<"a">>) }
LimitInputs == { Nothing, Some(<<"1">>), Some(<<"x">>) }

\* channel of GET my_videos: missing, empty, the ids of the two channels, the
\* id of no channel, and text that is no number.
ChannelParams == { Nothing, Some(<<>>), Some(<<"1">>), Some(<<"2">>), Some(<<"9">>),
                   Some(<<"x">>) }
ChannelInputs == { Nothing, Some(<<"1">>), Some(<<"2">>) }

\* The ids a route <int:video_id> is tried with when at most m ids are issued:
\* 0, the ids issued, and one never issued.
RouteIds(m) == 0..(m + 1)

Digits == <<"0", "1", "2", "3", "4", "5", "6", "7", "8", "9">>
IsDigit(c) == \E i \in 1..Len(Digits) : Digits[i] = c
DigitValue(c) == (CHOOSE i \in 1..Len(Digits) : Digits[i] = c) - 1

RECURSIVE DigitsValue(_)
DigitsValue(s) ==
    IF s = <<>> THEN 0
    ELSE 10 * DigitsValue(SubSeq(s, 1, Len(s) - 1)) + DigitValue(s[Len(s)])

\* int(limit): the parsed value, or nothing when int() raises ValueError.
ParseInt(s) ==
    LET signed == Len(s) > 0 /\ s[1] \in {"-", "+"}
        body   == IF signed THEN Tail(s) ELSE s
    IN  IF body = <<>> \/ \E i \in 1..Len(body) : ~IsDigit(body[i]) THEN Nothing
        ELSE IF signed /\ s[1] = "-" THEN Some(0 - DigitsValue(body))
             ELSE Some(DigitsValue(body))

(* ------------------------------ handlers ------------------------------ *)
\* get_videos slicing one past the limit ([:limit + 1]).
GetVideosResult_OnePastLimit(vs, category, search, limit) ==
    LET base == Published(vs)
        byCat == IF category # Nothing /\ The(category) # <<>>
                    /\ Lower(The(category)) # <<"a", "l", "l">>
                 THEN {i \in base : vs[i].category # Nothing
                                    /\ CategorySlug[The(vs[i].category)] = The(category)}
                 ELSE base
        bySearch == IF search # Nothing /\ The(search) # <<>>
                    THEN {i \in byCat : Matches(vs[i], The(search))}
                    ELSE byCat
        n == IF limit = Nothing THEN Some(DEFAULT_LIMIT) ELSE ParseInt(The(limit))
    IN  IF n = Nothing \/ The(n) < 0 THEN Nothing
        ELSE Some(Take(DefaultOrder(vs, bySearch), The(n) + 1))

\* get_videos comparing the category with 'all' as sent, not lower-cased.
GetVideosResult_AllAsSent(vs, category, search, limit) ==
    LET base == Published(vs)
        byCat == IF category # Nothing /\ The(category) # <<>>
                    /\ The(category) # <<"a", "l", "l">>
                 THEN {i \in base : vs[i].category # Nothing
                                    /\ CategorySlug[The(vs[i].category)] = The(category)}
                 ELSE base
        bySearch == IF search # Nothing /\ The(search) # <<>>
                    THEN {i \in byCat : Matches(vs[i], The(search))}
                    ELSE byCat
        n == IF limit = Nothing THEN Some(DEFAULT_LIMIT) ELSE ParseInt(The(limit))
    IN  IF n = Nothing \/ The(n) < 0 THEN Nothing
        ELSE Some(Take(DefaultOrder(vs, bySearch), The(n)))

\* get_videos: the ids returned, in order, or nothing when the handler raises
\* (int(limit) fails, or the slice bound is negative).
GetVideosResult(vs, category, search, limit) ==
    LET base == Published(vs)
        byCat == IF category # Nothing /\ The(category) # <<>>
                    /\ Lower(The(category)) # <<"a", "l", "l">>
                 THEN {i \in base : vs[i].category # Nothing
                                    /\ CategorySlug[The(vs[i].category)] = The(category)}
                 ELSE base
        bySearch == IF search # Nothing /\ The(search) # <<>>
                    THEN {i \in byCat : Matches(vs[i], The(search))}
                    ELSE byCat
        n == IF limit = Nothing THEN Some(DEFAULT_LIMIT) ELSE ParseInt(The(limit))
    IN  IF n = Nothing \/ The(n) < 0 THEN Nothing
        ELSE Some(Take(DefaultOrder(vs, bySearch), The(n)))

GetVideos(k, category, search, limit) ==
    /\ \E w \in 1..k : Free(k, w)
    /\ LET r == GetVideosResult(videos, category, search, limit)
           params == Some([category |-> category, search |-> search, limit |-> limit])
       IN  resp' = IF r = Nothing
                   THEN Response("get_videos", params, 500, <<>>, {})
                   ELSE CountedResponse("get_videos", params,
                                        SerializeMany(videos, The(r)))
    /\ UNCHANGED <<videos, blobs, nextId, nextToken, now, inflight, served>>

\* search_videos: the ids returned, in order.
SearchVideosResult(vs, q) ==
    Take(DefaultOrder(vs, {i \in DOMAIN vs : Matches(vs[i], q)}), SEARCH_LIMIT)

SearchVideos(k, q) ==
    /\ \E w \in 1..k : Free(k, w)
    /\ resp' = IF q = Nothing \/ The(q) = <<>>
               THEN Response("search_videos", q, 400, <<>>, {})
               ELSE CountedResponse("search_videos", q,
                        SerializeMany(videos, SearchVideosResult(videos, The(q))))
    /\ UNCHANGED <<videos, blobs, nextId, nextToken, now, inflight, served>>

\* get_my_videos restricted to status='published', as the public listing is.
GetMyVideosResult_PublishedOnly(vs, channel_id) ==
    LET n == ParseInt(channel_id)
    IN  IF n = Nothing THEN Nothing
        ELSE Some(DefaultOrder(vs, {i \in Published(vs) : vs[i].channel = The(n)}))

\* get_my_videos: the ids of the rows of the channel, newest first, or
\* nothing when filter(channel_id=...) raises on a value that is no number.
GetMyVideosResult(vs, channel_id) ==
    LET n == ParseInt(channel_id)
    IN  IF n = Nothing THEN Nothing
        ELSE Some(DefaultOrder(vs, {i \in DOMAIN vs : vs[i].channel = The(n)}))

\* get_my_videos: 400 when the channel parameter is missing or empty.
GetMyVideos(k, channel) ==
    /\ \E w \in 1..k : Free(k, w)
    /\ resp' = IF channel = Nothing \/ The(channel) = <<>>
               THEN Response("get_my_videos", channel, 400, <<>>, {})
               ELSE LET r == GetMyVideosResult(videos, The(channel))
                    IN  IF r = Nothing
                        THEN Response("get_my_videos", channel, 500, <<>>, {})
                        ELSE CountedResponse("get_my_videos", channel,
                                             SerializeMany(videos, The(r)))
    /\ UNCHANGED <<videos, blobs, nextId, nextToken, now, inflight, served>>

\* Video.objects.get(id=video_id, status='published'): the row, or nothing
\* (Video.DoesNotExist).
\* The lookup without its status='published' condition.
GetPublished_AnyStatus(vs, video_id) ==
    IF video_id \in DOMAIN vs THEN Some(vs[video_id]) ELSE Nothing

GetPublished(vs, video_id) ==
    IF video_id \in DOMAIN vs /\ vs[video_id].status = "published"
    THEN Some(vs[video_id]) ELSE Nothing

\* get_video_data, first part.  A video_id that is absent or 0 is falsy and
\* takes the featured branch; any other id is fetched with status='published'
\* and its views incremented in the instance, to be saved by the next step.
GetVideoData(k, w, video_id) ==
    /\ Free(k, w)
    /\ IF video_id # Nothing /\ The(video_id) # 0
       THEN LET id == The(video_id)
            IN  IF GetPublished(videos, id) # Nothing
                THEN /\ videos[id].views < MaxViews
                     /\ inflight' = [inflight EXCEPT ![w] =
                            [ op |-> "get_video_data", pc |-> "save", arg |-> video_id,
                              inst |-> [videos[id] EXCEPT !.views = @ + 1] ]]
                     /\ resp' = NoResponse
                ELSE /\ resp' = Response("get_video_data", video_id, 404, <<>>, {})
                     /\ UNCHANGED inflight
       ELSE LET first == DefaultOrder(videos, Published(videos))
            IN  /\ resp' = IF first = <<>>
                           THEN Response("get_video_data", video_id, 404, <<>>, {})
                           ELSE Response("get_video_data", video_id, 200,
                                         <<Serialize(videos[first[1]])>>, {})
                /\ UNCHANGED inflight
    /\ UNCHANGED <<videos, blobs, nextId, nextToken, now, served>>

\* get_video_data, second part: video.save(update_fields=['views']) and the
\* response built from the instance.
GetVideoDataSave(w) ==
    /\ inflight[w].op = "get_video_data"
    /\ LET r == SaveViews(CurrentDb, inflight[w].inst)
       IN  /\ SetDb(r.db)
           /\ resp' = IF r.ok
                      THEN Response("get_video_data", inflight[w].arg, 200,
                                    <<Serialize(r.inst)>>, {})
                      ELSE Response("get_video_data", inflight[w].arg, 500, <<>>, {})
           /\ served' = IF r.ok THEN [served EXCEPT ![r.inst.id] = @ + 1] ELSE served
    /\ inflight' = [inflight EXCEPT ![w] = Idle]

\* upload_video, first part: is_valid(), and on success the first half of
\* VideoUploadSerializer.create (Video.objects.create as 'processing').
UploadVideo(k, m, w, req) ==
    /\ Free(k, w)
    /\ LET errors == SerializerErrors(req)
       IN  IF errors # {}
           THEN /\ resp' = Response("upload_video", Some(req), 400, <<>>, errors)
                /\ UNCHANGED <<videos, blobs, nextId, nextToken, now, inflight, served>>
           ELSE /\ nextId <= m
                /\ LET r == ObjectsCreate(CurrentDb, ValidatedData(req))
                   IN  /\ SetDb(r.db)
                       /\ inflight' = [inflight EXCEPT ![w] =
                              [ op |-> "upload_video", pc |-> "publish", req |-> req,
                                inst |-> r.inst ]]
                       /\ served' = (r.inst.id :> 0) @@ served
                /\ resp' = NoResponse

\* upload_video, second part: video.status = 'published'; video.save(); 201.
UploadVideoPublish(w) ==
    /\ inflight[w].op = "upload_video"
    /\ LET r == SaveAll(CurrentDb, MarkPublished(inflight[w].inst))
       IN  /\ SetDb(r.db)
           /\ resp' = Response("upload_video", Some(inflight[w].req), 201,
                               <<Serialize(r.inst)>>, {})
    /\ inflight' = [inflight EXCEPT ![w] = Idle]
    /\ UNCHANGED served

\* delete_video, first part: Video.objects.get(id=video_id), any status.
DeleteVideo(k, w, video_id) ==
    /\ Free(k, w)
    /\ IF video_id \in DOMAIN videos
       THEN /\ inflight' = [inflight EXCEPT ![w] =
                   [op |-> "delete_video", pc |-> "files", inst |-> videos[video_id]]]
            /\ resp' = NoResponse
       ELSE /\ resp' = Response("delete_video", Some(video_id), 404, <<>>, {})
            /\ UNCHANGED inflight
    /\ UNCHANGED <<videos, blobs, nextId, nextToken, now, served>>

\* delete_video, second part: video_file.delete(save=False), then
\* thumbnail_file.delete(save=False).  The blob store may fail on either
\* (failAt); the handler then answers 500 and goes no further.
DeleteVideoFiles(w, failAt) ==
    /\ inflight[w].op = "delete_video"
    /\ inflight[w].pc = "files"
    /\ LET inst == inflight[w].inst
           afterVideo == IF inst.video_file # Nothing /\ failAt # "video_file"
                         THEN StorageDelete(blobs, The(inst.video_file)) ELSE blobs
           afterThumb == IF inst.thumbnail_file # Nothing
                         THEN StorageDelete(afterVideo, The(inst.thumbnail_file))
                         ELSE afterVideo
       IN  CASE failAt = "none" ->
                  /\ blobs' = afterThumb
                  /\ inflight' = [inflight EXCEPT ![w].pc = "row"]
                  /\ resp' = NoResponse
             [] failAt = "video_file" ->
                  /\ inst.video_file # Nothing
                  /\ blobs' = blobs
                  /\ inflight' = [inflight EXCEPT ![w] = Idle]
                  /\ resp' = Response("delete_video", Some(inst.id), 500, <<>>, {})
             [] failAt = "thumbnail_file" ->
                  /\ inst.thumbnail_file # Nothing
                  /\ blobs' = afterVideo
                  /\ inflight' = [inflight EXCEPT ![w] = Idle]
                  /\ resp' = Response("delete_video", Some(inst.id), 500, <<>>, {})
    /\ UNCHANGED <<videos, nextId, nextToken, now, served>>

\* delete_video, third part: video.delete() and the success response.
DeleteVideoRow(w) ==
    /\ inflight[w].op = "delete_video"
    /\ inflight[w].pc = "row"
    /\ SetDb(DeleteRow(CurrentDb, inflight[w].inst.id))
    /\ resp' = Response("delete_video", Some(inflight[w].inst.id), 200, <<>>, {})
    /\ inflight' = [inflight EXCEPT ![w] = Idle]
    /\ UNCHANGED served

\* get_recommended_videos whose second query excludes neither the source nor
\* the videos already selected.
RecommendedResult_NoExclude(vs, video_id, tb1, tb2) ==
    LET current == vs[video_id]
        byViews == [i \in DOMAIN vs |-> vs[i].views]
        sameCat == {i \in Published(vs) : vs[i].category = current.category} \ {video_id}
        recommended == Take(OrderByDesc(sameCat, byViews, tb1), TIER1_LIMIT)
        additional == Take(OrderByDesc(Published(vs), byViews, tb2),
                           RECOMMENDED_LIMIT - Len(recommended))
    IN  IF Len(recommended) < RECOMMENDED_LIMIT
        THEN recommended \o additional ELSE recommended

\* get_recommended_videos whose first query is left in the default order
\* (-upload_date) and not ordered by -views.
RecommendedResult_Tier1ByDate(vs, video_id, tb1, tb2) ==
    LET current == vs[video_id]
        byViews == [i \in DOMAIN vs |-> vs[i].views]
        sameCat == {i \in Published(vs) : vs[i].category = current.category} \ {video_id}
        recommended == Take(DefaultOrder(vs, sameCat), TIER1_LIMIT)
        additional ==
            Take(OrderByDesc((Published(vs) \ Range(recommended)) \ {current.id},
                             byViews, tb2),
                 RECOMMENDED_LIMIT - Len(recommended))
    IN  IF Len(recommended) < RECOMMENDED_LIMIT
        THEN recommended \o additional ELSE recommended

\* get_recommended_videos whose second query stops after TIER1_LIMIT rows, so
\* that the third query has rows left to add.
RecommendedResult_Tier2Short(vs, video_id, tb1, tb2) ==
    LET current == vs[video_id]
        byViews == [i \in DOMAIN vs |-> vs[i].views]
        sameCat == {i \in Published(vs) : vs[i].category = current.category} \ {video_id}
        recommended == Take(OrderByDesc(sameCat, byViews, tb1), TIER1_LIMIT)
        additional ==
            Take(OrderByDesc((Published(vs) \ Range(recommended)) \ {current.id},
                             byViews, tb2),
                 Min(TIER1_LIMIT, RECOMMENDED_LIMIT - Len(recommended)))
        withMore == IF Len(recommended) < RECOMMENDED_LIMIT
                    THEN recommended \o additional ELSE recommended
        recent ==
            Take(DefaultOrder(vs, (Published(vs) \ Range(withMore)) \ {current.id}),
                 RECOMMENDED_LIMIT - Len(withMore))
    IN  IF Len(withMore) < RECOMMENDED_LIMIT THEN withMore \o recent ELSE withMore

\* get_recommended_videos for a published source: the ids returned, in order.
\* tb1 and tb2 are the orders in which the two -views queries return ties.
RecommendedResult(vs, video_id, tb1, tb2) ==
    LET current == vs[video_id]
        byViews == [i \in DOMAIN vs |-> vs[i].views]
        sameCat == {i \in Published(vs) : vs[i].category = current.category} \ {video_id}
        recommended == Take(OrderByDesc(sameCat, byViews, tb1), TIER1_LIMIT)
        additional ==
            Take(OrderByDesc((Published(vs) \ Range(recommended)) \ {current.id},
                             byViews, tb2),
                 RECOMMENDED_LIMIT - Len(recommended))
        withMore == IF Len(recommended) < RECOMMENDED_LIMIT
                    THEN recommended \o additional ELSE recommended
        recent ==
            Take(DefaultOrder(vs, (Published(vs) \ Range(withMore)) \ {current.id}),
                 RECOMMENDED_LIMIT - Len(withMore))
    IN  IF Len(withMore) < RECOMMENDED_LIMIT THEN withMore \o recent ELSE withMore

GetRecommendedVideos(k, video_id, tb1, tb2) ==
    /\ \E w \in 1..k : Free(k, w)
    /\ resp' = IF GetPublished(videos, video_id) # Nothing
               THEN Response("get_recommended_videos", Some(video_id), 200,
                             SerializeMany(videos,
                                 RecommendedResult(videos, video_id, tb1, tb2)), {})
               ELSE Response("get_recommended_videos", Some(video_id), 404, <<>>, {})
    /\ UNCHANGED <<videos, blobs, nextId, nextToken, now, inflight, served>>

\* get_categories: Category.objects.all(), in the model's ordering (name).
GetCategories(k) ==
    /\ \E w \in 1..k : Free(k, w)
    /\ LET ids == OrderByName(Categories, CategorySlug)
       IN  resp' = Response("get_categories", Nothing, 200,
                            [n \in 1..Len(ids) |-> [id |-> ids[n], slug |-> CategorySlug[ids[n]]]],
                            {})
    /\ UNCHANGED <<videos, blobs, nextId, nextToken, now, inflight, served>>

\* get_channels: Channel.objects.all().order_by('name').
GetChannels(k) ==
    /\ \E w \in 1..k : Free(k, w)
    /\ LET ids == OrderByName(Channels, ChannelName)
       IN  resp' = Response("get_channels", Nothing, 200,
                            [n \in 1..Len(ids) |-> [id |-> ids[n], name |-> ChannelName[ids[n]]]],
                            {})
    /\ UNCHANGED <<videos, blobs, nextId, nextToken, now, inflight, served>>

\* The response leaves the server (the return of an api_view handler).
Deliver ==
    /\ resp # NoResponse
    /\ resp' = NoResponse
    /\ UNCHANGED <<videos, blobs, nextId, nextToken, now, inflight, served>>

(* --------------------------- specifications --------------------------- *)
\* The requests of the API, at most k of them in flight and at most m video
\* ids issued, the blob store failing in the ways F.
Serve(k, m, F) ==
    \/ \E c \in CategoryInputs, s \in SearchInputs, l \in LimitInputs : GetVideos(k, c, s, l)
    \/ \E q \in SearchInputs : SearchVideos(k, q)
    \/ \E c \in ChannelInputs : GetMyVideos(k, c)
    \/ \E w \in Workers, id \in {Nothing} \cup {Some(x) : x \in RouteIds(m)} :
           GetVideoData(k, w, id)
    \/ \E w \in Workers : GetVideoDataSave(w)
    \/ \E w \in Workers, req \in UploadInputs : UploadVideo(k, m, w, req)
    \/ \E w \in Workers : UploadVideoPublish(w)
    \/ \E w \in Workers, id \in RouteIds(m) : DeleteVideo(k, w, id)
    \/ \E w \in Workers, f \in F : DeleteVideoFiles(w, f)
    \/ \E w \in Workers : DeleteVideoRow(w)
    \/ \E id \in RouteIds(m), tb1 \in TieBreaks, tb2 \in TieBreaks :
           GetRecommendedVideos(k, id, tb1, tb2)
    \/ Deliver

\* One request at a time: each handler runs to its response before the next.
\* The blob store does not fail.
Next == Serve(1, MaxVideos, {"none"})

Spec == Init /\ [][Next]_vars

\* Overlapping requests, as under a multi-worker server.
NextConc == Serve(MaxInflight, MaxConcVideos, {"none"})

\* The store starts empty: what the claims on overlap are about is one video.
InitConc ==
    /\ videos = <<>>
    /\ blobs = {}
    /\ nextId = 1
    /\ nextToken = 1
    /\ now = 0
    /\ inflight = [w \in Workers |-> Idle]
    /\ resp = NoResponse
    /\ served = <<>>

SpecConc == InitConc /\ [][NextConc]_vars

\* One request at a time, with a blob store whose delete may raise on the
\* video blob or on the thumbnail blob.
StorageFailures == {"none", "video_file", "thumbnail_file"}

NextFault == Serve(1, MaxVideos, StorageFailures)

SpecFault == Init /\ [][NextFault]_vars

(* ----------------- recommendations over larger stores ----------------- *)
\* A complete upload: both halves of VideoUploadSerializer.create.
Uploaded(db, req) ==
    LET c == ObjectsCreate(db, ValidatedData(req))
    IN  (SaveAll(c.db, MarkPublished(c.inst))).db

ViewProfiles == {"zero", "up", "down", "mod"}

ProfileViews(profile, i, n) ==
    CASE profile = "zero" -> 0
      [] profile = "up" -> i
      [] profile = "down" -> n - i
      [] profile = "mod" -> i % 3

\* Row i of a store of d seeded rows followed by uploads, the first c of them
\* with a thumbnail and a category and the rest with neither: what the upload
\* leaves, given the ids, tokens and clock the earlier uploads used up.
RecUpload(i, d, c) ==
    LET j == i - d
        token == IF j <= c THEN 2 * (j - 1) + 1 ELSE 2 * c + (j - c - 1) + 1
    IN  Uploaded(Db(<<>>, {}, i, token, j - 1),
                 IF j <= c THEN UploadWithThumbnail ELSE UploadMaxSize)

\* ... and after the detail requests that bring the views to a profile.
RecStore(n, d, c, profile) ==
    [ videos |-> [i \in 1..n |->
          IF i <= d THEN SeedVideo(i, 0 - i)
          ELSE [RecUpload(i, d, c).videos[i] EXCEPT !.views = ProfileViews(profile, i, n)]],
      blobs |-> UNION {RecUpload(i, d, c).blobs : i \in (d + 1)..n},
      nextId |-> n + 1,
      nextToken |-> n - d + c + 1,
      now |-> n - d ]

InitRec ==
    \E n \in 0..RecMaxVideos : \E d \in 0..Min(n, MaxSeed) : \E c \in 0..(n - d) :
    \E profile \in ViewProfiles :
        LET db == RecStore(n, d, c, profile)
        IN  /\ videos = db.videos
            /\ blobs = db.blobs
            /\ nextId = db.nextId
            /\ nextToken = db.nextToken
            /\ now = db.now
            /\ inflight = [w \in Workers |-> Idle]
            /\ resp = NoResponse
            /\ served = [i \in 1..n |-> IF i <= d THEN 0 ELSE ProfileViews(profile, i, n)]

\* One request per drawn store.
NextRec ==
    /\ \E id \in 0..(RecMaxVideos + 1), tb1 \in TieBreaks, tb2 \in TieBreaks :
           GetRecommendedVideos(1, id, tb1, tb2)

SpecRec == InitRec /\ [][NextRec]_vars

(* ------------------------- uploads of any file ------------------------ *)
\* Uploads with the files of ValidatorInputs into an empty store.
NextValidate ==
    \/ \E req \in ValidatorInputs : UploadVideo(1, MaxConcVideos, 1, req)
    \/ UploadVideoPublish(1)
    \/ Deliver

SpecValidate == InitConc /\ [][NextValidate]_vars

(* ------------------------ uploads of any status ----------------------- *)
\* The status a client may send: none, each of the model's choices, and a
\* value that is not a choice.
StatusInputs == {Nothing} \cup {Some(s) : s \in STATUS_CHOICES} \cup {Some("archived")}

StatusRequests == {[r EXCEPT !.status = s] : r \in ValidRequests, s \in StatusInputs}

NextStatus ==
    \/ \E w \in Workers, req \in StatusRequests :
           UploadVideo(MaxInflight, MaxVideos, w, req)
    \/ \E w \in Workers : UploadVideoPublish(w)
    \/ Deliver

SpecStatus == InitConc /\ [][NextStatus]_vars

(* --------------------------- display of ages -------------------------- *)
\* Seconds within the day, around the minute and hour boundaries.
DisplaySeconds == {0, 1, 59, 60, 61, 119, 120, 3599, 3600, 3601, 7199, 7200,
                   24 * 3600 - 1}

\* One uploaded video, read when it is d days and s seconds old.
InitDisplay ==
    \E d \in 0..DisplayMaxDays, s \in DisplaySeconds :
        LET db == Uploaded(Db(<<>>, {}, 1, 1, 0), UploadMaxSize)
        IN  /\ videos = db.videos
            /\ blobs = db.blobs
            /\ nextId = db.nextId
            /\ nextToken = db.nextToken
            /\ now = db.videos[1].upload_date + d * 24 * 3600 + s
            /\ inflight = [w \in Workers |-> Idle]
            /\ resp = NoResponse
            /\ served = [i \in {1} |-> 0]

\* A serializer reads the uploaded_display property of a row.
UploadedDisplay(id) ==
    /\ resp = NoResponse
    /\ id \in DOMAIN videos
    /\ LET diff == now - videos[id].upload_date
       IN  resp' = Response("uploaded_display", Some(id), 200,
                            <<uploaded_display(TimedeltaDays(diff), TimedeltaSeconds(diff))>>,
                            {})
    /\ UNCHANGED <<videos, blobs, nextId, nextToken, now, inflight, served>>

NextDisplay == \E id \in DOMAIN videos : UploadedDisplay(id)

SpecDisplay == InitDisplay /\ [][NextDisplay]_vars

(* ---------------------- listings over larger stores ------------------- *)
\* One request at a time, the read requests also with the parameter values
\* they reject, and the two listings of the fixed tables.
NextRead ==
    \/ Next
    \/ \E c \in CategoryInputs, s \in SearchInputs, l \in LimitParams : GetVideos(1, c, s, l)
    \/ \E q \in SearchParams : SearchVideos(1, q)
    \/ \E c \in ChannelParams : GetMyVideos(1, c)
    \/ GetCategories(1)
    \/ GetChannels(1)

SpecRead == Init /\ [][NextRead]_vars

\* Stores of seeded drafts and uploads, none of them viewed: of the uploads
\* none, half or all carry the category and channel of UploadWithThumbnail,
\* the others those of UploadMaxSize.
InitQuery ==
    \E n \in 0..QueryMaxVideos : \E d \in 0..Min(n, MaxSeed) :
    \E c \in {0, (n - d) \div 2, n - d} :
        LET db == RecStore(n, d, c, "zero")
        IN  /\ videos = db.videos
            /\ blobs = db.blobs
            /\ nextId = db.nextId
            /\ nextToken = db.nextToken
            /\ now = db.now
            /\ inflight = [w \in Workers |-> Idle]
            /\ resp = NoResponse
            /\ served = [i \in 1..n |-> 0]

\* One listing request per drawn store, with any of the parameter values.
NextQuery ==
    \/ \E c \in CategoryParams, s \in SearchParams, l \in LimitParams : GetVideos(1, c, s, l)
    \/ \E q \in SearchParams : SearchVideos(1, q)
    \/ \E c \in ChannelParams : GetMyVideos(1, c)

SpecQuery == InitQuery /\ [][NextQuery]_vars

(* ------------------------------- claims ------------------------------- *)
ReadOps == {"get_videos", "search_videos", "get_video_data", "get_recommended_videos"}

\* C1: every video that list, search, detail or recommended returns has status
\* 'published'.
C1_OnlyPublishedReturned ==
    resp.op \in ReadOps =>
        \A n \in 1..Len(resp.data) : resp.data[n].status = "published"

\* C2: with detail(id) requests served one after another, the stored views of
\* a published video equal the number of detail(id) requests answered with
\* success (an upload starts at 0), and each such response shows the views
\* after its own increment.
C2_SequentialViews ==
    /\ \A id \in Published(videos) : videos[id].views = served[id]
    /\ (resp.op = "get_video_data" /\ resp.code = 200
        /\ resp.arg # Nothing /\ The(resp.arg) # 0) =>
            /\ Len(resp.data) = 1
            /\ resp.data[1].id = The(resp.arg)
            /\ resp.data[1].views = served[The(resp.arg)]
            /\ resp.data[1].views = videos[The(resp.arg)].views

\* Two detail(id) requests were answered and the second response shows 2.
C2_Witness ==
    /\ resp.op = "get_video_data" /\ resp.code = 200
    /\ resp.arg # Nothing /\ The(resp.arg) # 0
    /\ served[The(resp.arg)] = 2
    /\ resp.data[1].views = 2

\* The step is the views write of a detail(id) request.
IsDetailSave(id) ==
    \E w \in Workers :
        /\ inflight[w].op = "get_video_data"
        /\ inflight[w].inst.id = id
        /\ inflight'[w] = Idle

\* C3: under any interleaving, the stored views of a row never decrease from
\* one state to the next, and change only by a detail(id) request for it.
C3_ViewsMonotone ==
    [][\A id \in (DOMAIN videos) \cap (DOMAIN videos') :
           /\ videos'[id].views >= videos[id].views
           /\ videos'[id].views # videos[id].views => IsDetailSave(id)]_vars

\* The defects the claim lists.
C4_Defects == { "video_too_large", "video_bad_ext", "thumb_bad_ext", "thumb_too_large",
                "title_missing", "channel_missing", "video_missing" }

C4_FieldOf(d) ==
    CASE d \in {"video_too_large", "video_bad_ext", "video_missing"} -> "video_file"
      [] d \in {"thumb_bad_ext", "thumb_too_large"} -> "thumbnail_file"
      [] d = "title_missing" -> "title"
      [] d = "channel_missing" -> "channel"

\* C4: an upload with one of the listed defects is reported under the field at
\* fault; an upload answered 400 carries a per-field report and leaves the
\* Metadata Store and the Blob Store as they were; and every stored blob and
\* every row passes the validator, so that no rejected upload was persisted.
C4_RejectedUploadPersistsNothing ==
    /\ [](\A r \in ValidRequests, d \in C4_Defects :
             \E e \in SerializerErrors(WithDefect(r, d)) : e[1] = C4_FieldOf(d))
    /\ [](\A id \in DOMAIN videos :
             /\ videos[id].title # <<>>
             /\ videos[id].video_file # Nothing =>
                   /\ videos[id].file_size <= MAX_VIDEO_SIZE
                   /\ Lower(SplitExt((The(videos[id].video_file)).name))
                          \in ALLOWED_VIDEO_EXTENSIONS
             /\ videos[id].thumbnail_file # Nothing =>
                   Lower(SplitExt((The(videos[id].thumbnail_file)).name))
                       \in ALLOWED_IMAGE_EXTENSIONS)
    /\ [](\A b \in blobs :
             IF b.path.kind = "videos" THEN b.size <= MAX_VIDEO_SIZE
             ELSE b.size <= MAX_THUMBNAIL_SIZE)
    /\ [][(resp'.op = "upload_video" /\ resp'.code = 400) =>
             /\ resp'.errors # {}
             /\ resp'.data = <<>>
             /\ videos' = videos
             /\ blobs' = blobs
             /\ nextId' = nextId]_vars

\* An oversized video was rejected while the store holds a row and its blobs.
C4_Witness ==
    /\ resp.op = "upload_video" /\ resp.code = 400
    /\ <<"video_file", "too_large">> \in resp.errors
    /\ DOMAIN videos # {}
    /\ blobs # {}

\* The upload a worker is serving, between its two saves.
UploadsInFlight == {w \in Workers : inflight[w].op = "upload_video"}

\* C5: an upload first creates the row as 'processing', with the blobs of the
\* files sent; when it answers 201 the row is 'published' with a
\* published_date, views 0, file_size the byte length of the video blob, and
\* its blobs are in the Blob Store.
C5_SuccessfulUpload ==
    /\ \A w \in UploadsInFlight :
          LET id == inflight[w].inst.id
              req == inflight[w].req
          IN  /\ id \in DOMAIN videos
              /\ videos[id].status = "processing"
              /\ videos[id].published_date = Nothing
              /\ videos[id].video_file # Nothing
              /\ Blob(The(videos[id].video_file), (The(req.video_file)).size) \in blobs
              /\ req.thumbnail_file # Nothing =>
                    /\ videos[id].thumbnail_file # Nothing
                    /\ Blob(The(videos[id].thumbnail_file),
                            (The(req.thumbnail_file)).size) \in blobs
    /\ (resp.op = "upload_video" /\ resp.code = 201) =>
          /\ Len(resp.data) = 1
          /\ resp.data[1].id \in DOMAIN videos
          /\ resp.data[1].status = "published"
          /\ LET v == videos[resp.data[1].id]
             IN  /\ v.status = "published"
                 /\ v.published_date # Nothing
                 /\ v.views = 0
                 /\ v.video_file # Nothing
                 /\ The(v.video_file) \in BlobPaths(blobs)
                 /\ v.file_size > 0
                 /\ v.file_size = BlobSize(blobs, The(v.video_file))
                 /\ v.thumbnail_file \subseteq BlobPaths(blobs)

\* An upload with a thumbnail was answered 201.
C5_Witness ==
    /\ resp.op = "upload_video" /\ resp.code = 201
    /\ videos[resp.data[1].id].thumbnail_file # Nothing
    /\ videos[resp.data[1].id].status = "published"

\* The ids a response lists, in order.
ResponseIds == [n \in 1..Len(resp.data) |-> resp.data[n].id]

RecommendedOk == resp.op = "get_recommended_videos" /\ resp.code = 200

\* C6: the list recommended(id) returns for a published source has at most 10
\* entries, does not contain the source, and contains no id twice.
C6_RecommendedBounded ==
    RecommendedOk =>
        /\ Len(resp.data) <= 10
        /\ The(resp.arg) \notin Range(ResponseIds)
        /\ \A a, b \in 1..Len(resp.data) : a # b => ResponseIds[a] # ResponseIds[b]

\* A full list of 10 out of a store with more than 11 published videos.
C6_Witness ==
    /\ RecommendedOk
    /\ Len(resp.data) = 10
    /\ Cardinality(Published(videos)) > 11

\* The published videos other than the source, and those of its category.
C7_Others == Published(videos) \ {The(resp.arg)}

C7_SameCategory ==
    {i \in C7_Others : videos[i].category = videos[The(resp.arg)].category}

C7_Tier1Len == Min(5, Cardinality(C7_SameCategory))

C7_Tier2End == Min(10, Cardinality(C7_Others))

\* Positions lo..hi hold, in descending views, the most viewed members of S.
C7_TopByViews(lo, hi, S) ==
    /\ \A n \in lo..hi : ResponseIds[n] \in S
    /\ \A a, b \in lo..hi : a < b => videos[ResponseIds[a]].views >= videos[ResponseIds[b]].views
    /\ \A n \in lo..hi : \A i \in S \ {ResponseIds[j] : j \in lo..hi} :
           videos[i].views <= videos[ResponseIds[n]].views

\* C7: the recommended list begins with the most viewed published videos of
\* the source's category other than the source, in descending views and at
\* most 5; then come the most viewed published videos not yet selected, of any
\* category, in descending views; what follows them is in descending
\* upload_date.  No entry of a later tier precedes one of an earlier tier.
C7_TierOrder ==
    RecommendedOk =>
        /\ C7_Tier1Len <= C7_Tier2End
        /\ C7_Tier2End <= Len(resp.data)
        /\ C7_TopByViews(1, C7_Tier1Len, C7_SameCategory)
        /\ C7_TopByViews(C7_Tier1Len + 1, C7_Tier2End,
                         C7_Others \ {ResponseIds[j] : j \in 1..C7_Tier1Len})
        /\ \A a, b \in (C7_Tier2End + 1)..Len(resp.data) :
               a < b => videos[ResponseIds[a]].upload_date >= videos[ResponseIds[b]].upload_date

\* Five same-category entries of differing views lead a list of 10, although a
\* video of another category has more views than any of them.
C7_Witness ==
    /\ RecommendedOk
    /\ Len(resp.data) = 10
    /\ C7_Tier1Len = 5
    /\ Cardinality(C7_SameCategory) > 5
    /\ resp.data[1].views > resp.data[5].views
    /\ resp.data[6].views > resp.data[1].views
    /\ resp.data[6].category # resp.data[1].category

\* The paths of the blobs a row names.
FilesOf(inst) == inst.video_file \cup inst.thumbnail_file

\* C8: delete(id) of an existing row, whatever its status, removes the row's
\* blobs and then the row and leaves every other row and blob as it was;
\* delete(id) of an id with no row answers 404 and changes nothing.
C8_Delete ==
    [][\A w \in Workers :
        /\ (inflight[w].op = "idle" /\ inflight'[w].op = "delete_video") =>
              /\ inflight'[w].inst.id \in DOMAIN videos
              /\ inflight'[w].inst = videos[inflight'[w].inst.id]
              /\ videos' = videos /\ blobs' = blobs
        /\ (inflight[w].op = "delete_video" /\ inflight[w].pc = "files") =>
              /\ inflight'[w].op = "delete_video" /\ inflight'[w].pc = "row"
              /\ blobs' = {b \in blobs : b.path \notin FilesOf(inflight[w].inst)}
              /\ videos' = videos
        /\ (inflight[w].op = "delete_video" /\ inflight[w].pc = "row") =>
              /\ resp' = Response("delete_video", Some(inflight[w].inst.id), 200, <<>>, {})
              /\ DOMAIN videos' = (DOMAIN videos) \ {inflight[w].inst.id}
              /\ \A i \in DOMAIN videos' : videos'[i] = videos[i]
              /\ blobs' = blobs
              /\ BlobPaths(blobs') \cap FilesOf(inflight[w].inst) = {}
        /\ (resp'.op = "delete_video" /\ resp'.code = 404) =>
              /\ The(resp'.arg) \notin DOMAIN videos
              /\ videos' = videos /\ blobs' = blobs
        /\ (resp'.op = "delete_video" /\ resp' # resp /\ resp'.code # 404) =>
              /\ resp'.code = 200
              /\ The(resp'.arg) \in DOMAIN videos
              /\ The(resp'.arg) \notin DOMAIN videos']_vars

\* A row with blobs was deleted while another row and its blobs remain.
C8_Witness ==
    /\ resp.op = "delete_video" /\ resp.code = 200
    /\ The(resp.arg) \notin DOMAIN videos
    /\ \E i \in DOMAIN videos : /\ FilesOf(videos[i]) # {}
                                /\ FilesOf(videos[i]) \subseteq BlobPaths(blobs)
    /\ nextToken - 1 > Cardinality(blobs)

\* C9: detail(id), for any id the route accepts (0 included), answers 404 with
\* no video and changes no row when no published video has that id.
C9_DetailNotFound ==
    [][(/\ resp'.op = "get_video_data"
        /\ resp' # resp
        /\ resp'.arg # Nothing
        /\ The(resp'.arg) \notin Published(videos)) =>
            /\ resp'.code = 404
            /\ resp'.data = <<>>
            /\ videos' = videos]_vars

\* C10: recommended(id) answers 404 with no list whenever no video has the id
\* or the video with that id is not published.
C10_RecommendedNotFound ==
    (resp.op = "get_recommended_videos" /\ The(resp.arg) \notin Published(videos)) =>
        /\ resp.code = 404
        /\ resp.data = <<>>

\* recommended(id) was refused for the id of a row that is not published,
\* while a published video exists.
C10_Witness ==
    /\ resp.op = "get_recommended_videos" /\ resp.code = 404
    /\ The(resp.arg) \in DOMAIN videos
    /\ videos[The(resp.arg)].status # "published"
    /\ Published(videos) # {}

\* The parameters of the get_videos request that resp answers.
ListParams == The(resp.arg)

\* 'all' in any letter case.
IsAllSpelling(c) ==
    /\ Len(c) = 3
    /\ c[1] \in {"a", "A"} /\ c[2] \in {"l", "L"} /\ c[3] \in {"l", "L"}

\* The row's category has the slug c.
HasSlug(v, c) == v.category # Nothing /\ CategorySlug[The(v.category)] = c

\* The ids list returns for the search of resp when no category is sent, under
\* the limit of resp and under a limit above any store's size.
C11_Uncategorised == GetVideosResult(videos, Nothing, ListParams.search, ListParams.limit)

C11_UncategorisedAll ==
    The(GetVideosResult(videos, Nothing, ListParams.search, Some(<<"9", "9">>)))

C11_OfCategory ==
    SelectSeq(C11_UncategorisedAll,
              LAMBDA i : HasSlug(videos[i], The(ListParams.category)))

\* C11: list with category 'all' in any letter case answers as list without a
\* category does, for every search and limit; any other non-empty category
\* restricts the answer to the videos whose category slug equals it exactly.
C11_CategoryAll ==
    (resp.op = "get_videos" /\ ListParams.category # Nothing
     /\ The(ListParams.category) # <<>>) =>
        IF IsAllSpelling(The(ListParams.category))
        THEN /\ resp.code = 200 <=> C11_Uncategorised # Nothing
             /\ resp.code = 200 => ResponseIds = The(C11_Uncategorised)
        ELSE resp.code = 200 =>
             /\ \A n \in 1..Len(resp.data) :
                    /\ resp.data[n].category # Nothing
                    /\ CategorySlug[The(resp.data[n].category)] = The(ListParams.category)
             /\ Len(ResponseIds) <= Len(C11_OfCategory)
             /\ ResponseIds = SubSeq(C11_OfCategory, 1, Len(ResponseIds))
             /\ Len(ResponseIds) < Len(The(C11_Uncategorised)) =>
                    ResponseIds = C11_OfCategory

\* list with category 'AlL' returned videos with a category and without one.
C11_Witness ==
    /\ resp.op = "get_videos" /\ resp.code = 200
    /\ ListParams.category = Some(<<"A", "l", "L">>)
    /\ \E a, b \in 1..Len(resp.data) :
           resp.data[a].category = Nothing /\ resp.data[b].category # Nothing

\* Two characters are the same letter, whatever their case.
SameLetter(a, b) ==
    a = b \/ \E n \in 1..Len(UpperCase) : {a, b} = {UpperCase[n], LowerCase[n]}

\* term occurs in text as a substring, compared without regard to case.
C12_Occurs(term, text) ==
    \E i \in 1..(Len(text) - Len(term) + 1) :
        \A j \in 1..Len(term) : SameLetter(text[i + j - 1], term[j])

C12_InTitle(v, term) == C12_Occurs(term, v.title)
C12_InDescription(v, term) == C12_Occurs(term, v.description)
C12_InChannel(v, term) == C12_Occurs(term, ChannelName[v.channel])

C12_Matches(v, term) ==
    C12_InTitle(v, term) \/ C12_InDescription(v, term) \/ C12_InChannel(v, term)

\* The ids list returns for the category of resp when no search term is sent,
\* under the limit of resp and under a limit above any store's size.
C12_Unsearched == The(GetVideosResult(videos, ListParams.category, Nothing, ListParams.limit))

C12_UnsearchedAll ==
    Range(The(GetVideosResult(videos, ListParams.category, Nothing, Some(<<"9", "9">>))))

\* C12: for list with a search term and for search(q), every video returned
\* has the term, case ignored, in its title or its description or its
\* channel's name, and as long as the limit is not reached every candidate
\* with the term in any one of the three is returned.
C12_SearchAnyField ==
    /\ (resp.op = "get_videos" /\ resp.code = 200 /\ ListParams.search # Nothing
        /\ The(ListParams.search) # <<>>) =>
           /\ \A i \in Range(ResponseIds) : C12_Matches(videos[i], The(ListParams.search))
           /\ Len(ResponseIds) < Len(C12_Unsearched) =>
                  \A i \in C12_UnsearchedAll :
                      C12_Matches(videos[i], The(ListParams.search)) =>
                          i \in Range(ResponseIds)
    /\ (resp.op = "search_videos" /\ resp.code = 200) =>
           /\ \A i \in Range(ResponseIds) : C12_Matches(videos[i], The(resp.arg))
           /\ Len(ResponseIds) < 20 =>
                  \A i \in Published(videos) :
                      C12_Matches(videos[i], The(resp.arg)) => i \in Range(ResponseIds)

\* list with the term 'cO' returned a video that has it in its channel's name
\* alone, and left out a published video that has it nowhere.
C12_Witness ==
    /\ resp.op = "get_videos" /\ resp.code = 200
    /\ ListParams.search = Some(<<"c", "O">>)
    /\ \E i \in Range(ResponseIds) :
           /\ ~C12_InTitle(videos[i], <<"c", "O">>)
           /\ ~C12_InDescription(videos[i], <<"c", "O">>)
           /\ C12_InChannel(videos[i], <<"c", "O">>)
    /\ \E i \in Published(videos) : i \notin Range(ResponseIds)
    /\ Len(ResponseIds) < Len(C12_Unsearched)

\* The number a limit parameter stands for; 20 when none is sent.
C13_Limit(l) ==
    CASE l = Nothing -> 20
      [] l = Some(<<"0">>) -> 0
      [] l = Some(<<"1">>) -> 1
      [] l = Some(<<"2">>) -> 2
      [] l = Some(<<"2", "1">>) -> 21

\* The published videos that the category and the search of resp select.
C13_Candidates ==
    { i \in Published(videos) :
        /\ (ListParams.category # Nothing /\ The(ListParams.category) # <<>>
            /\ ~IsAllSpelling(The(ListParams.category)))
               => HasSlug(videos[i], The(ListParams.category))
        /\ (ListParams.search # Nothing /\ The(ListParams.search) # <<>>)
               => C12_Matches(videos[i], The(ListParams.search)) }

\* C13: list returns the first limit candidates by upload_date, most recent
\* first, limit being the caller's value or 20 when omitted, and its count is
\* the number of videos returned; search returns at most 20, counted likewise.
C13_ListLimit ==
    /\ (resp.op = "get_videos" /\ resp.code = 200) =>
           /\ Len(resp.data) = Min(C13_Limit(ListParams.limit), Cardinality(C13_Candidates))
           /\ resp.count = Len(resp.data)
           /\ Range(ResponseIds) \subseteq C13_Candidates
           /\ \A a, b \in 1..Len(ResponseIds) :
                  a < b => videos[ResponseIds[a]].upload_date
                               > videos[ResponseIds[b]].upload_date
           /\ \A i \in C13_Candidates \ Range(ResponseIds) :
                  \A n \in 1..Len(ResponseIds) :
                      videos[i].upload_date < videos[ResponseIds[n]].upload_date
    /\ (resp.op = "search_videos" /\ resp.code = 200) =>
           /\ Len(resp.data) <= 20
           /\ resp.count = Len(resp.data)

\* list without a limit returned 20 of more than 20 candidates.
C13_Witness ==
    /\ resp.op = "get_videos" /\ resp.code = 200
    /\ ListParams.limit = Nothing
    /\ Len(resp.data) = 20
    /\ Cardinality(C13_Candidates) > 20

\* The step answers a detail request that came without an id.
C14_Featured == resp'.op = "get_video_data" /\ resp' # resp /\ resp'.arg = Nothing

\* C14: detail without an id returns the published video with the most recent
\* upload_date and changes no row, no view count among them; it answers 404
\* when no video is published.
C14_FeaturedDetail ==
    [][C14_Featured =>
         /\ videos' = videos
         /\ served' = served
         /\ IF Published(videos) = {}
            THEN resp'.code = 404 /\ resp'.data = <<>>
            ELSE /\ resp'.code = 200
                 /\ Len(resp'.data) = 1
                 /\ resp'.data[1].id \in Published(videos)
                 /\ resp'.data[1] = Serialize(videos[resp'.data[1].id])
                 /\ \A j \in Published(videos) :
                        videos[j].upload_date <= videos[resp'.data[1].id].upload_date]_vars

\* detail without an id returned the later of two published videos, the
\* earlier of which has been viewed.
C14_Witness ==
    /\ resp.op = "get_video_data" /\ resp.arg = Nothing /\ resp.code = 200
    /\ \E j \in Published(videos) :
           /\ videos[j].upload_date < videos[resp.data[1].id].upload_date
           /\ videos[j].views > 0
    /\ videos[resp.data[1].id].views = 0

C15_VideoSuffixes == {"mp4", "avi", "mov", "wmv", "flv", "webm"}
C15_ImageSuffixes == {"jpg", "jpeg", "png", "gif", "webp"}

\* The suffix of a file name of FileNames.
C15_Suffix(name) == (CHOOSE n \in FileNames : n[1] = name)[2]

C15_VideoOk(f) == f.size <= 524288000 /\ C15_Suffix(f.name) \in C15_VideoSuffixes
C15_ThumbnailOk(f) == f.size <= 10485760 /\ C15_Suffix(f.name) \in C15_ImageSuffixes

\* The upload request that resp answers, and the errors reported under a field.
C15_Request == The(resp.arg)
C15_Reported(field) == \E e \in resp.errors : e[1] = field

\* C15: the validator accepts a video file exactly when it has at most
\* 524288000 bytes and a suffix, lower-cased, among mp4, avi, mov, wmv, flv,
\* webm, and a thumbnail exactly when it has at most 10485760 bytes and a
\* suffix among jpg, jpeg, png, gif, webp; an upload whose other fields are
\* valid is refused under the field of each file not accepted, and accepted
\* files are stored as sent.
C15_ValidatorBoundaries ==
    /\ \A n \in FileNames, z \in VideoSizes \cup ThumbnailSizes \cup {0} :
           /\ validate_video_file(File(n[1], z)) = Nothing <=> C15_VideoOk(File(n[1], z))
           /\ validate_thumbnail_file(File(n[1], z)) = Nothing
                  <=> C15_ThumbnailOk(File(n[1], z))
    /\ resp.op = "upload_video" =>
           LET video == The(C15_Request.video_file)
               thumbOk == \A f \in C15_Request.thumbnail_file : C15_ThumbnailOk(f)
           IN  /\ C15_Reported("video_file") <=> ~C15_VideoOk(video)
               /\ C15_Reported("thumbnail_file") <=> ~thumbOk
               /\ resp.code = 201 <=> (C15_VideoOk(video) /\ thumbOk)
               /\ resp.code = 201 =>
                      LET v == videos[resp.data[1].id]
                      IN  /\ (The(v.video_file)).name = video.name
                          /\ Blob(The(v.video_file), video.size) \in blobs
                          /\ \A f \in C15_Request.thumbnail_file :
                                 /\ v.thumbnail_file # Nothing
                                 /\ (The(v.thumbnail_file)).name = f.name
                                 /\ Blob(The(v.thumbnail_file), f.size) \in blobs

\* An upload of a video of exactly 500 MB named in upper case, with a
\* thumbnail of exactly 10 MB, was accepted.
C15_Witness ==
    /\ resp.op = "upload_video" /\ resp.code = 201
    /\ (The(C15_Request.video_file)).size = 524288000
    /\ (The(C15_Request.video_file)).name = UpperMp4Name
    /\ \E f \in C15_Request.thumbnail_file : f.size = 10485760

\* The channel id a channel parameter stands for.
C16_Channel(c) ==
    CASE c = Some(<<"1">>) -> 1
      [] c = Some(<<"2">>) -> 2
      [] c = Some(<<"9">>) -> 9

\* C16: my_videos(channel) returns every row of that channel, whatever its
\* status, each once, in descending upload_date, with count their number; it
\* answers 400 with no data when the channel parameter is missing or empty.
C16_MyVideos ==
    resp.op = "get_my_videos" =>
        /\ (resp.arg = Nothing \/ resp.arg = Some(<<>>)) <=> resp.code = 400
        /\ resp.code = 400 => resp.data = <<>>
        /\ resp.arg \in {Some(<<"1">>), Some(<<"2">>), Some(<<"9">>)} =>
              /\ resp.code = 200
              /\ Range(ResponseIds)
                     = {i \in DOMAIN videos : videos[i].channel = C16_Channel(resp.arg)}
              /\ Len(ResponseIds) = Cardinality(Range(ResponseIds))
              /\ resp.count = Len(resp.data)
              /\ \A a, b \in 1..Len(ResponseIds) :
                     a < b => videos[ResponseIds[a]].upload_date
                                  > videos[ResponseIds[b]].upload_date

\* my_videos of channel 1 returned a published video ahead of a draft.
C16_Witness ==
    /\ resp.op = "get_my_videos" /\ resp.code = 200
    /\ resp.arg = Some(<<"1">>)
    /\ \E a, b \in 1..Len(resp.data) :
           /\ a < b
           /\ resp.data[a].status = "published"
           /\ resp.data[b].status = "draft"
    /\ \E i \in DOMAIN videos : videos[i].channel # 1

\* Row v after a save at time t that leaves it with status s and n more views.
C17_SavedAs(v, s, n, t) ==
    VideoSaveFields([v EXCEPT !.status = s, !.views = @ + n], v.file_size, t)

\* C17: published_date is null exactly while a row has never been saved as
\* 'published'; the step that sets it is the one that makes the row
\* 'published'; once set, no step changes or clears it, and neither would a
\* further save, with whatever status or view count.
C17_PublishedDateOnce ==
    /\ [](\A id \in DOMAIN videos :
             videos[id].published_date = Nothing <=> videos[id].status # "published")
    /\ [][\A id \in (DOMAIN videos) \cap (DOMAIN videos') :
             /\ videos[id].published_date # Nothing =>
                    videos'[id].published_date = videos[id].published_date
             /\ (videos[id].published_date = Nothing
                 /\ videos'[id].published_date # Nothing) =>
                    /\ videos[id].status # "published"
                    /\ videos'[id].status = "published"]_vars
    /\ [](\A id \in DOMAIN videos : \A s \in STATUS_CHOICES, n \in {0, 1}, t \in {now, now + 1} :
             IF videos[id].published_date # Nothing
             THEN C17_SavedAs(videos[id], s, n, t).published_date = videos[id].published_date
             ELSE C17_SavedAs(videos[id], s, n, t).published_date
                      = IF s = "published" THEN Some(t) ELSE Nothing)

\* A published video has been viewed after its published_date was set.
C17_Witness ==
    \E id \in DOMAIN videos :
        /\ videos[id].status = "published"
        /\ videos[id].published_date # Nothing
        /\ videos[id].views > 0
        /\ \A w \in Workers : inflight[w] = Idle

\* C18: once delete(id) of an existing row has answered, the row is gone, also
\* when the deletion of one of its blobs failed.
C18_RowRemovedDespiteBlobFailure ==
    (resp.op = "delete_video" /\ resp.code # 404) =>
        The(resp.arg) \notin DOMAIN videos

\* C19: detail(id) reads the views, adds 1 in the instance and later writes
\* that value, whatever the row holds by then; so the views never exceed the
\* number of successful detail(id) requests and fall behind it when two
\* requests that read the same value both answer with success.
C19_ReadModifyWrite ==
    /\ [](\A id \in Published(videos) : videos[id].views <= served[id])
    /\ [][\A w \in Workers :
             /\ (inflight[w] = Idle /\ inflight'[w].op = "get_video_data") =>
                    inflight'[w].inst.views = videos[inflight'[w].inst.id].views + 1
             /\ (inflight[w].op = "get_video_data" /\ inflight'[w] = Idle
                 /\ resp'.code = 200) =>
                    /\ videos'[inflight[w].inst.id].views = inflight[w].inst.views
                    /\ resp'.data[1].views = inflight[w].inst.views
                    /\ served'[inflight[w].inst.id] = served[inflight[w].inst.id] + 1]_vars

\* Two detail(id) requests of one video have both answered with success and
\* the stored views are 1: an update was lost.
C19_Witness ==
    /\ resp.op = "get_video_data" /\ resp.code = 200
    /\ \A w \in Workers : inflight[w] = Idle
    /\ resp.arg # Nothing
    /\ The(resp.arg) \in Published(videos)
    /\ served[The(resp.arg)] = 2
    /\ videos[The(resp.arg)].views = 1
    /\ resp.data[1].views = 1

\* The age of the video whose uploaded_display resp holds, in whole days and
\* remaining seconds.
C20_Age == now - videos[The(resp.arg)].upload_date
C20_Days == C20_Age \div 86400
C20_Seconds == C20_Age % 86400

\* The unit count of the claim, with the unit in singular and plural.
C20_Count ==
    IF C20_Days = 0 /\ C20_Seconds < 3600 THEN <<C20_Seconds \div 60, "minute", "minutes">>
    ELSE IF C20_Days = 0 THEN <<C20_Seconds \div 3600, "hour", "hours">>
    ELSE IF C20_Days < 7 THEN <<C20_Days, "day", "days">>
    ELSE IF C20_Days < 30 THEN <<C20_Days \div 7, "week", "weeks">>
    ELSE IF C20_Days < 365 THEN <<C20_Days \div 30, "month", "months">>
    ELSE <<C20_Days \div 365, "year", "years">>

\* C20: uploaded_display shows the unit count of the age (minutes within the
\* first hour, hours within the first day, days below 7, weeks below 30,
\* months below 365, else years), in the singular wording exactly when the
\* count is 1 and otherwise as the count with the plural unit.
C20_UploadedDisplay ==
    resp.op = "uploaded_display" =>
        resp.data[1] = IF C20_Count[1] = 1 THEN <<1, C20_Count[2]>>
                       ELSE <<C20_Count[1], C20_Count[3]>>

\* The first n entries of a sequence, or all of it when it is shorter.
C21_Prefix(seq, n) == [i \in 1..(IF n < Len(seq) THEN n ELSE Len(seq)) |-> seq[i]]

\* The tier-1 entries followed by the tier-2 entries, for the orders a and b in
\* which the two queries return videos of equal views.
C21_Tier1(a) ==
    C21_Prefix(OrderByDesc(C7_SameCategory, [i \in DOMAIN videos |-> videos[i].views], a), 5)
C21_Tier2(a, b) ==
    C21_Prefix(OrderByDesc(C7_Others \ Range(C21_Tier1(a)),
                           [i \in DOMAIN videos |-> videos[i].views], b),
               10 - Len(C21_Tier1(a)))

\* C21: with the store unchanged during recommended(id), the third tier adds
\* nothing: the list is the tier-1 entries followed by the tier-2 entries, and
\* its length is exactly min(10, number of published videos other than the
\* source).
C21_ThirdTierEmpty ==
    RecommendedOk =>
        /\ Len(resp.data) = (IF Cardinality(C7_Others) < 10
                             THEN Cardinality(C7_Others) ELSE 10)
        /\ \E a \in {"asc", "desc"}, b \in {"asc", "desc"} :
               ResponseIds = C21_Tier1(a) \o C21_Tier2(a, b)

\* A list shorter than 10, so that the third query runs, holding entries of
\* both tiers with differing views.
C21_Witness ==
    /\ RecommendedOk
    /\ Len(resp.data) < 10
    /\ C7_Tier1Len > 0
    /\ Len(resp.data) > C7_Tier1Len + 1
    /\ resp.data[Len(resp.data)].views # resp.data[Len(resp.data) - 1].views

\* The ids whose upload has created its row and not yet published it.
C22_BeingUploaded ==
    {inflight[w].inst.id : w \in {x \in Workers : inflight[x].op = "upload_video"}}

\* C22: the status a client sends with an upload has no effect: the row is
\* 'processing' until the upload publishes it and 'published' from then on,
\* and every successful upload answers with, and stores, status 'published'.
C22_ClientStatusIgnored ==
    /\ \A id \in DOMAIN videos :
           videos[id].status = IF id \in C22_BeingUploaded THEN "processing"
                               ELSE "published"
    /\ (resp.op = "upload_video" /\ resp.code = 201) =>
           /\ resp.data[1].status = "published"
           /\ videos[resp.data[1].id].status = "published"

\* A successful upload that asked for 'private', after one that asked for
\* 'draft' or another status.
C22_Witness ==
    /\ resp.op = "upload_video"
    /\ resp.code = 201
    /\ (The(resp.arg)).status = {"private"}
    /\ Cardinality(DOMAIN videos) = 2

\* No request is in flight.
C23_Quiescent == \A w \in Workers : inflight[w].op = "idle"

\* C23: in every quiescent state reached by interleaved upload and delete
\* requests, every file reference of every row names a blob of the Blob
\* Store, and the id of a delete that has just answered success has no row;
\* a delete(id) between an upload's row creation and its publish save leaves
\* no published row whose blobs were deleted.
C23_RowsNameBlobs ==
    C23_Quiescent =>
        /\ \A id \in DOMAIN videos : FilesOf(videos[id]) \subseteq BlobPaths(blobs)
        /\ (resp.op = "delete_video" /\ resp.code = 200) =>
               The(resp.arg) \notin DOMAIN videos

\* Worker w's detail request writes its views although the row it read has
\* been removed since.
C24_WriteAfterDelete(w) ==
    /\ inflight[w].op = "get_video_data"
    /\ inflight[w].inst.id \notin DOMAIN videos
    /\ inflight'[w].op = "idle"

\* C24: when delete(id) removes the row between a detail(id) request's read
\* and its views write, the write does not re-create the row (no row and no
\* blob changes) and the detail request ends with an error response.
C24_NoResurrection ==
    [][\A w \in Workers :
           C24_WriteAfterDelete(w) =>
               /\ videos' = videos
               /\ blobs' = blobs
               /\ resp'.op = "get_video_data"
               /\ resp'.arg = inflight[w].arg
               /\ resp'.code >= 400]_vars

\* A detail request has answered 500 for an id that was issued and whose row
\* is gone.
C24_Witness ==
    /\ resp.op = "get_video_data"
    /\ resp.code = 500
    /\ resp.arg # Nothing
    /\ The(resp.arg) \in 1..(nextId - 1)
    /\ The(resp.arg) \notin DOMAIN videos

\* The handlers that only read.
C25_ReadOnly ==
    {"get_videos", "search_videos", "get_categories", "get_channels",
     "get_recommended_videos", "get_my_videos"}

\* This step is the answer of one of the handlers ops.
C25_Answers(ops) == resp' # resp /\ resp'.op \in ops

\* This step belongs to a detail request: its read, or its write and answer.
C25_DetailStep ==
    \/ C25_Answers({"get_video_data"})
    \/ \E w \in Workers : inflight'[w].op = "get_video_data" /\ inflight[w].op = "idle"

\* C25: list, search, categories, channels, recommended, my_videos and detail
\* without id leave every row and every blob unchanged, on success and on
\* error; detail(id) changes nothing but the views field of the one video it
\* returns.
C25_ReadsChangeNothing ==
    [][/\ C25_Answers(C25_ReadOnly) => (videos' = videos /\ blobs' = blobs)
       /\ C25_DetailStep =>
              /\ blobs' = blobs
              /\ DOMAIN videos' = DOMAIN videos
              /\ \A id \in DOMAIN videos :
                     videos'[id] # videos[id] =>
                         /\ resp'.op = "get_video_data"
                         /\ resp'.code = 200
                         /\ resp'.arg = {id}
                         /\ resp'.data[1].id = id
                         /\ videos'[id] = [videos[id] EXCEPT !.views = videos'[id].views]]_vars

\* detail(id) has answered for an uploaded video while another row exists.
C25_Witness ==
    /\ resp.op = "get_video_data"
    /\ resp.code = 200
    /\ resp.arg # Nothing
    /\ resp.data[1].id = The(resp.arg)
    /\ videos[The(resp.arg)].views > 0
    /\ Cardinality(DOMAIN videos) > 1

====
